---- MODULE Spec2Model ----
(***************************************************************************)
(* A model of src/src/core/ytdlp_manager.py: the YTDLPManager gateway     *)
(* (process invocation, JSON extraction, accessors, availability check,   *)
(* download command builder) and the module-level get_ytdlp_manager       *)
(* singleton.                                                             *)
(*                                                                         *)
(* A Python string is a sequence of pieces.  The stdout of the external   *)
(* tool is a sequence of tokens: a newline, a space, a well-formed JSON   *)
(* document, or a piece of text that is not JSON.  Python values are      *)
(* records [t, v]: t is the type tag and v the payload, so that the empty *)
(* dict, the empty list and None stay different values.                   *)
(***************************************************************************)
EXTENDS Integers, Sequences, FiniteSets, TLC

VARIABLES
  op,        \* the gateway operation that ran last ("none" before any)
  self,      \* the gateway's ytdlp_path
  proc,      \* what the external process did in that operation
  exists,    \* whether Path(ytdlp_path).exists() held in that operation
  args,      \* the operation's arguments (url, options)
  ret,       \* the value the operation returned, or the exception it raised
  ytdlp_manager,   \* the module-level _ytdlp_manager: 0 is None, else an instance
  heap,      \* the YTDLPManager instances created so far: their ytdlp_path
  phase,     \* "sequential": one caller; "threads": two threads, one call each
  calls,     \* get_ytdlp_manager calls made by the single caller
  last,      \* the single caller's last call: request, result, what it found
  pc,        \* per thread: its position in get_ytdlp_manager
  req,       \* per thread: the ytdlp_path argument of its call
  tmp,       \* per thread: the instance it created, before the global write
  got        \* per thread: the instance its call returned

gatewayVars == <<op, self, proc, exists, args, ret>>
singletonVars == <<ytdlp_manager, heap, phase, calls, last, pc, req, tmp, got>>
vars == <<op, self, proc, exists, args, ret,
          ytdlp_manager, heap, phase, calls, last, pc, req, tmp, got>>

(***************************************************************************)
(* Bounds of the model.                                                    *)
(***************************************************************************)
MaxOut == 5       \* tokens in the stdout of an extraction or version probe
MaxFormats == 2   \* formats in the format list of the builder's extraction
MaxCalls == 3     \* sequential get_ytdlp_manager calls before the threads

(***************************************************************************)
(* Python values.                                                          *)
(***************************************************************************)
None == [t |-> "none", v |-> <<>>]
Raise(exc) == [t |-> "raise", v |-> exc]
PyBool(b) == [t |-> "bool", v |-> b]
JNum(n) == [t |-> "num", v |-> n]
JStr(s) == [t |-> "str", v |-> s]
JArr(s) == [t |-> "arr", v |-> s]
JObj(m) == [t |-> "obj", v |-> m]
EmptyDict == JObj(<<>>)

IsRaise(x) == x.t = "raise"
IsObj(x) == x.t = "obj"

\* bool(x)
Truthy(x) ==
  CASE x.t = "none" -> FALSE
    [] x.t = "bool" -> x.v
    [] x.t = "num" -> x.v # 0
    [] x.t = "str" -> x.v # <<>>
    [] x.t = "arr" -> x.v # <<>>
    [] x.t = "obj" -> DOMAIN x.v # {}
    [] OTHER -> TRUE

\* d.get(key, default) of a dict d
Get(d, key, default) == IF key \in DOMAIN d.v THEN d.v[key] ELSE default

\* `key in x`: a dict has the key, a list has the element, a str has the
\* substring (a piece of it here); any other value raises TypeError.
Contains(x, key) ==
  CASE x.t = "obj" -> PyBool(key \in DOMAIN x.v)
    [] x.t = "arr" -> PyBool(\E i \in 1..Len(x.v) : x.v[i] = JStr(<<key>>))
    [] x.t = "str" -> PyBool(\E i \in 1..Len(x.v) : x.v[i] = key)
    [] OTHER -> Raise("TypeError")

\* x[key] with a str key: only a dict can answer.
Subscript(x, key) ==
  IF x.t = "obj" THEN (IF key \in DOMAIN x.v THEN x.v[key] ELSE Raise("KeyError"))
  ELSE Raise("TypeError")

(***************************************************************************)
(* Text: tokens of stdout, strip(), split('\n'), json.loads().             *)
(***************************************************************************)
NL == [k |-> "nl", j |-> None]
SP == [k |-> "sp", j |-> None]
BAD == [k |-> "bad", j |-> None]
Doc(x) == [k |-> "json", j |-> x]

IsSpace(tok) == tok.k \in {"nl", "sp"}

\* str.strip(): leading and trailing whitespace removed.
Strip(s) ==
  LET idx == {i \in 1..Len(s) : ~IsSpace(s[i])} IN
  IF idx = {} THEN <<>>
  ELSE LET lo == CHOOSE i \in idx : \A k \in idx : i <= k
           hi == CHOOSE i \in idx : \A k \in idx : k <= i
       IN SubSeq(s, lo, hi)

\* str.split('\n'): the pieces between the newlines; one (empty) piece for "".
RECURSIVE Split(_)
Split(s) ==
  LET nls == {i \in 1..Len(s) : s[i].k = "nl"} IN
  IF nls = {} THEN <<s>>
  ELSE LET n == CHOOSE i \in nls : \A k \in nls : i <= k
       IN <<SubSeq(s, 1, n - 1)>> \o Split(SubSeq(s, n + 1, Len(s)))

DecodeError == Raise("JSONDecodeError")

\* json.loads(line): surrounding whitespace is allowed, then exactly one
\* document; anything else (nothing, text that is not JSON, extra data)
\* raises JSONDecodeError.
JsonLoads(line) ==
  LET body == Strip(line) IN
  IF Len(body) = 1 /\ body[1].k = "json" THEN body[1].j ELSE DecodeError

(***************************************************************************)
(* The external process.  One run either exits with a status and a stdout, *)
(* or exceeds the timeout, or cannot be launched.                         *)
(***************************************************************************)
Exited(rc, out) == [kind |-> "exit", rc |-> rc, out |-> out]
TimedOut == [kind |-> "timeout", rc |-> 0, out |-> <<>>]
LaunchFailed == [kind |-> "oserror", rc |-> 0, out |-> <<>>]

\* _run_command: (return_code, stdout); stderr is only ever logged.
run_command(env) ==
  IF env.kind = "exit" THEN [rc |-> env.rc, out |-> env.out]
  ELSE [rc |-> -1, out |-> <<>>]

DefaultPath == <<"yt-dlp">>

(***************************************************************************)
(* get_version, check_availability                                         *)
(***************************************************************************)
get_version(env) ==
  LET res == run_command(env) IN
  IF res.rc = 0 THEN JStr(Strip(res.out)) ELSE None

NeedsFileCheckAlways(path) == TRUE

\* `self.ytdlp_path != "yt-dlp"`
NeedsFileCheck(path) == path # DefaultPath

check_availability(path, fileExists, env) ==
  IF NeedsFileCheck(path) /\ ~fileExists THEN PyBool(FALSE)
  ELSE PyBool(get_version(env) # None)

(***************************************************************************)
(* extract_info                                                            *)
(***************************************************************************)
FailedOnlyNegative(rc) == rc < 0

\* `return_code != 0`
Failed(rc) == rc # 0

\* `line.strip()` is falsy
IsBlank(line) == Strip(line) = <<>>

ParseLinesSkippingBad(lines) ==
  LET kept == SelectSeq(lines, LAMBDA l : ~IsBlank(l) /\ ~IsRaise(JsonLoads(l)))
  IN [ok |-> TRUE, entries |-> [i \in 1..Len(kept) |-> JsonLoads(kept[i])]]

\* the loop over the lines: every line that is not blank is parsed, in
\* order; ok is FALSE when one of them raised JSONDecodeError.
ParseLines(lines) ==
  LET kept == SelectSeq(lines, LAMBDA l : ~IsBlank(l))
      parsed == [i \in 1..Len(kept) |-> JsonLoads(kept[i])]
  IN [ok |-> \A i \in 1..Len(parsed) : ~IsRaise(parsed[i]), entries |-> parsed]

PlaylistEntriesWithHeader(entries) == entries

\* `entries[1:]`
PlaylistEntries(entries) == SubSeq(entries, 2, Len(entries))

extract_info(env) ==
  LET res == run_command(env) IN
  IF Failed(res.rc) THEN None
  ELSE
    LET lines == Split(Strip(res.out)) IN
    IF Len(lines) = 1 THEN
      (LET v == JsonLoads(lines[1]) IN IF IsRaise(v) THEN None ELSE v)
    ELSE
      LET playlist_info == JsonLoads(lines[1])
          loop == ParseLines(lines)
          entries == loop.entries
      IN IF IsRaise(playlist_info) \/ ~loop.ok THEN None
         ELSE IF ~IsObj(playlist_info) THEN Raise("AttributeError")
         ELSE IF Get(playlist_info, "_type", None) = JStr(<<"playlist">>)
           THEN JObj(("entries" :> JArr(PlaylistEntries(entries))) @@ playlist_info.v)
           ELSE JObj(("entries" :> JArr(entries)) @@ ("_type" :> JStr(<<"multi_video">>)))

(***************************************************************************)
(* get_formats, get_subtitles, get_thumbnail_info                          *)
(***************************************************************************)
\* `if info and key in info: return info[key]`, else None
FieldOrNone(info, key) ==
  IF IsRaise(info) THEN info
  ELSE IF ~Truthy(info) THEN None
  ELSE LET has == Contains(info, key) IN
       IF IsRaise(has) THEN has
       ELSE IF has.v THEN Subscript(info, key) ELSE None

get_formats(env) == FieldOrNone(extract_info(env), "formats")

get_thumbnail_info(env) == FieldOrNone(extract_info(env), "thumbnails")

get_subtitles(env) ==
  LET info == extract_info(env) IN
  IF IsRaise(info) THEN info
  ELSE IF ~Truthy(info) THEN None
  ELSE IF ~IsObj(info) THEN Raise("AttributeError")
  ELSE JObj(("subtitles" :> Get(info, "subtitles", EmptyDict))
            @@ ("automatic_captions" :> Get(info, "automatic_captions", EmptyDict)))

(***************************************************************************)
(* build_download_command                                                  *)
(*                                                                         *)
(* An option that is absent is its falsy value (the empty string, the     *)
(* empty list, False): the builder reads every option but output_path     *)
(* through options.get(...) and its truth value only.                     *)
(***************************************************************************)
\* s.split(sep)[0]: the pieces before the first sep (all of s without one)
BeforeFirst(s, sep) ==
  LET at == {i \in 1..Len(s) : s[i] = sep} IN
  IF at = {} THEN s
  ELSE SubSeq(s, 1, (CHOOSE i \in at : \A k \in at : i <= k) - 1)

\* `format_id.split("-drc")[0] if "-drc" in format_id else format_id`
CleanFormatId(format_id) == BeforeFirst(format_id, "-drc")

\* sep.join(parts)
RECURSIVE Join(_, _)
Join(sep, parts) ==
  IF parts = <<>> THEN <<>>
  ELSE IF Len(parts) = 1 THEN parts[1]
  ELSE parts[1] \o <<sep>> \o Join(sep, Tail(parts))

\* str.lower(), piece by piece
Lower(s) == [i \in 1..Len(s) |-> IF s[i] = "Audio Only" THEN "audio only" ELSE s[i]]

\* `for fmt in info['formats']: if fmt.get('format_id') == clean_format_id:
\* ... break`: the first format with the id, [found, raised, fmt].  Iterating
\* a value that is no list or reading .get of a format that is no dict raises.
FindFormat(info, clean_format_id) ==
  LET none == [found |-> FALSE, exc |-> "", fmt |-> None]
      raised(e) == [found |-> FALSE, exc |-> e, fmt |-> None]
  IN
  IF ~Truthy(info) THEN none
  ELSE LET has == Contains(info, "formats") IN
    IF IsRaise(has) THEN raised(has.v)
    ELSE IF ~has.v THEN none
    ELSE LET formats == Subscript(info, "formats") IN
      IF IsRaise(formats) THEN raised(formats.v)
      ELSE IF formats.t \in {"obj", "str"}
        THEN (IF Truthy(formats) THEN raised("AttributeError") ELSE none)
      ELSE IF formats.t # "arr" THEN raised("TypeError")
      ELSE
        LET stop == {i \in 1..Len(formats.v) :
                       \/ ~IsObj(formats.v[i])
                       \/ Get(formats.v[i], "format_id", None) = JStr(clean_format_id)}
        IN IF stop = {} THEN none
           ELSE LET i == CHOOSE i \in stop : \A k \in stop : i <= k IN
                IF ~IsObj(formats.v[i]) THEN raised("AttributeError")
                ELSE [found |-> TRUE, exc |-> "", fmt |-> formats.v[i]]

IsAudioFormatByNoteOnly(fmt) ==
  LET note == Get(fmt, "format_note", JStr(<<>>)) IN
  IF note.t # "str" THEN Raise("AttributeError")
  ELSE PyBool(\E i \in 1..Len(note.v) : Lower(note.v)[i] = "audio only")

\* `fmt.get('vcodec') == 'none' or 'audio only' in fmt.get('format_note', '').lower()`
IsAudioFormat(fmt) ==
  IF Get(fmt, "vcodec", None) = JStr(<<"none">>) THEN PyBool(TRUE)
  ELSE LET note == Get(fmt, "format_note", JStr(<<>>)) IN
       IF note.t # "str" THEN Raise("AttributeError")
       ELSE PyBool(\E i \in 1..Len(note.v) : Lower(note.v)[i] = "audio only")

\* the format selection: the tokens it adds, or the exception it raises
FormatArgs(o, env) ==
  IF o.format_id # <<>> THEN
    LET clean_format_id == CleanFormatId(o.format_id)
        info == extract_info(env)
    IN IF IsRaise(info) THEN info
       ELSE LET hit == FindFormat(info, clean_format_id)
                audio == IF hit.found THEN IsAudioFormat(hit.fmt) ELSE PyBool(FALSE)
            IN IF hit.exc # "" THEN Raise(hit.exc)
               ELSE IF IsRaise(audio) THEN audio
               ELSE IF audio.v THEN JArr(<<<<"-f">>, clean_format_id>>)
               ELSE LET format_ext == IF hit.found THEN Get(hit.fmt, "ext", None) ELSE None
                    IN JArr(<<<<"-f">>, clean_format_id \o <<"+bestaudio/best">>>>
                            \o (IF Truthy(format_ext)
                                  THEN <<<<"--merge-output-format">>, format_ext.v>>
                                  ELSE <<>>))
  ELSE IF o.resolution # <<>> THEN JArr(<<<<"-S">>, <<"res:">> \o o.resolution>>)
  ELSE JArr(<<>>)

Cwd == <<"/", "cwd">>

\* the output template
TemplateArgs(o) ==
  LET output_path == IF o.output_path # <<>> THEN o.output_path ELSE Cwd IN
  <<<<"-o">>,
    output_path \o <<"/">>
      \o (IF o.is_playlist THEN <<"%(playlist_title)s", "/">> ELSE <<>>)
      \o <<"%(title)s_%(resolution)s.%(ext)s">>>>

\* the subtitle options
SubtitleArgs(o) ==
  IF o.subtitle_langs # <<>> THEN
    LET lang_codes == [i \in 1..Len(o.subtitle_langs) |->
                         BeforeFirst(o.subtitle_langs[i], " - ")]
    IN <<<<"--write-subs">>, <<"--sub-langs">>, Join(",", lang_codes), <<"--write-auto-subs">>>>
         \o (IF o.merge_subs THEN <<<<"--embed-subs">>>> ELSE <<>>)
  ELSE <<>>

\* everything after --force-overwrites and before the URL
OtherArgs(o) ==
  (IF o.playlist_items # <<>> THEN <<<<"--playlist-items">>, o.playlist_items>> ELSE <<>>)
  \o SubtitleArgs(o)
  \o (IF o.enable_sponsorblock /\ o.sponsorblock_categories # <<>>
        THEN <<<<"--sponsorblock-remove">>, Join(",", o.sponsorblock_categories)>>
        ELSE <<>>)
  \o (IF o.save_description THEN <<<<"--write-description">>>> ELSE <<>>)
  \o (IF o.embed_chapters THEN <<<<"--embed-chapters">>>> ELSE <<>>)
  \o (IF o.cookie_file # <<>> THEN <<<<"--cookies">>, o.cookie_file>>
      ELSE IF o.browser_cookies # <<>> THEN <<<<"--cookies-from-browser">>, o.browser_cookies>>
      ELSE <<>>)
  \o (IF o.rate_limit # <<>> THEN <<<<"-r">>, o.rate_limit>> ELSE <<>>)
  \o (IF o.download_section # <<>>
        THEN <<<<"--download-sections">>, o.download_section>>
               \o (IF o.force_keyframes THEN <<<<"--force-keyframes-at-cuts">>>> ELSE <<>>)
        ELSE <<>>)

AddUrlBeforeOptions(head, rest, url) == head \o <<url>> \o rest

\* the vector: what precedes the common options, the common options, and
\* `cmd.append(url)` at the end
AddUrl(head, rest, url) == head \o rest \o <<url>>

build_download_command(path, url, o, env) ==
  LET sel == FormatArgs(o, env) IN
  IF IsRaise(sel) THEN sel
  ELSE JArr(AddUrl(<<path>> \o sel.v \o TemplateArgs(o) \o <<<<"--force-overwrites">>>>,
                   OtherArgs(o), url))

(***************************************************************************)
(* get_ytdlp_manager and the module-level _ytdlp_manager                   *)
(*                                                                         *)
(* A requested reference is a str or a Path; str() of a Path is its       *)
(* normal form: a leading "./" and a repeated "/" are dropped.            *)
(***************************************************************************)
StrRef(s) == [kind |-> "str", v |-> s]
PathRef(s) == [kind |-> "path", v |-> s]

\* str(ytdlp_path)
StrOf(ref) ==
  IF ref.kind = "path"
    THEN LET keep == {i \in 1..Len(ref.v) :
                        /\ ~(i = 1 /\ ref.v[i] = "./")
                        /\ ~(i > 1 /\ ref.v[i] = "/" /\ ref.v[i - 1] = "/")}
             nth(n) == CHOOSE i \in keep : Cardinality({k \in keep : k <= i}) = n
         IN [n \in 1..Cardinality(keep) |-> ref.v[nth(n)]]
    ELSE ref.v

NewManagerIgnoringPath(ref) == DefaultPath

\* YTDLPManager(ytdlp_path): the new instance's ytdlp_path
NewManager(ref) == StrOf(ref)

\* `_ytdlp_manager is None`
IsNone(m) == m = 0

\* `_ytdlp_manager.ytdlp_path != str(ytdlp_path)`
PathDiffers(m, h, ref) == h[m] # StrOf(ref)

NeedsNewOnlyWhenNone(m, h, ref) == IsNone(m)

\* the condition of get_ytdlp_manager
NeedsNew(m, h, ref) == IsNone(m) \/ PathDiffers(m, h, ref)

(***************************************************************************)
(* The inputs of the gateway operations.                                   *)
(***************************************************************************)
DocArr == JArr(<<JNum(1)>>)
DocPlaylist == JObj(("_type" :> JStr(<<"playlist">>)) @@ ("title" :> JStr(<<"mix">>)))
DocVideo ==
  JObj(("_type" :> JStr(<<"video">>))
       @@ ("formats" :> JArr(<<JObj("format_id" :> JStr(<<"18">>))>>))
       @@ ("subtitles" :> JObj("en" :> JArr(<<>>)))
       @@ ("thumbnails" :> JArr(<<JObj("id" :> JStr(<<"0">>))>>)))

\* what the tool may print on one extraction
Tokens == {NL, SP, BAD, Doc(DocArr), Doc(EmptyDict), Doc(DocPlaylist), Doc(DocVideo)}

\* what it may print on a version probe
VER == [k |-> "text", j |-> None]
VersionTokens == {NL, SP, VER}

Texts(alphabet, n) == UNION {[1..k -> alphabet] : k \in 0..n}

ExitCodes == {0, 1}

ExtractEnvs ==
  {Exited(rc, out) : rc \in ExitCodes, out \in Texts(Tokens, MaxOut)}
    \cup {TimedOut, LaunchFailed}

VersionEnvs ==
  {Exited(rc, out) : rc \in ExitCodes, out \in Texts(VersionTokens, MaxOut)}
    \cup {TimedOut, LaunchFailed}

InstalledPath == <<"/", "opt", "/", "yt-dlp">>
GatewayPaths == {DefaultPath, InstalledPath}

NoArgs == [url |-> <<>>, options |-> <<>>]

(***************************************************************************)
(* The inputs of build_download_command.                                   *)
(***************************************************************************)
Url == <<"https://", "v", "/", "1">>
OtherUrl == <<"https://", "v", "/", "2">>

FormatIds == {<<"18">>, <<"140", "-drc">>}

\* a format: the keys given with a value; vcodec, format_note and ext may be
\* missing, and format_note may be null
Format(id, keys) == JObj(("format_id" :> JStr(id)) @@ keys)

FormatPool ==
  { Format(<<"18">>, ("vcodec" :> JStr(<<"avc1">>)) @@ ("format_note" :> JStr(<<"360p">>))
                       @@ ("ext" :> JStr(<<"mp4">>))),
    Format(<<"18">>, ("vcodec" :> JStr(<<"vp9">>))),
    Format(<<"18">>, ("vcodec" :> JStr(<<"avc1">>)) @@ ("format_note" :> None)),
    Format(<<"140">>, ("vcodec" :> JStr(<<"none">>)) @@ ("ext" :> JStr(<<"m4a">>))),
    Format(<<"140">>, ("format_note" :> JStr(<<"Audio Only">>)) @@ ("ext" :> JStr(<<"m4a">>))),
    Format(<<"140", "-drc">>, ("vcodec" :> JStr(<<"none">>)) @@ ("format_note" :> None)) }

\* the format lists the tool may print: its format ids are unique in a list
FormatLists(n) ==
  {l \in Texts(FormatPool, n) :
     \A i, k \in 1..Len(l) : i # k => l[i].v["format_id"] # l[k].v["format_id"]}

WithFormats(l) == JObj(("_type" :> JStr(<<"video">>)) @@ ("formats" :> JArr(l)))

\* the builder's extraction: every format list, and the other shapes the
\* extraction result can have
BuildEnvs ==
  {Exited(0, <<Doc(WithFormats(l))>>) : l \in FormatLists(MaxFormats)}
    \cup {Exited(1, <<Doc(DocVideo)>>), TimedOut, LaunchFailed,
          Exited(0, <<Doc(EmptyDict)>>), Exited(0, <<Doc(DocArr)>>),
          Exited(0, <<Doc(JNum(1))>>), Exited(0, <<BAD>>),
          Exited(0, <<Doc(JObj("formats" :> JNum(1)))>>),
          Exited(0, <<Doc(JObj("formats" :> JArr(<<JNum(1)>>)))>>),
          Exited(0, <<Doc(DocPlaylist), NL, Doc(DocVideo)>>),
          Exited(0, <<Doc(DocArr), NL, Doc(DocVideo)>>)}

FewEnvs ==
  {LaunchFailed,
   Exited(0, <<Doc(DocArr), NL, Doc(DocVideo)>>),
   Exited(0, <<Doc(WithFormats(<<
     Format(<<"18">>, ("vcodec" :> JStr(<<"avc1">>)) @@ ("ext" :> JStr(<<"mp4">>))),
     Format(<<"140">>, ("vcodec" :> JStr(<<"none">>)) @@ ("ext" :> JStr(<<"m4a">>)))>>))>>)}

\* every combination of present and absent options
AllOptions ==
  [ format_id : FormatIds \cup {<<>>},
    resolution : {<<>>, <<"720">>},
    output_path : {<<>>, <<"/", "out">>},
    is_playlist : BOOLEAN,
    playlist_items : {<<>>, <<"1-3">>},
    subtitle_langs : {<<>>, <<<<"en", " - ", "English">>, <<"fr", " - ", "French">>>>},
    merge_subs : BOOLEAN,
    enable_sponsorblock : BOOLEAN,
    sponsorblock_categories : {<<>>, <<<<"sponsor">>, <<"intro">>>>},
    save_description : BOOLEAN,
    embed_chapters : BOOLEAN,
    cookie_file : {<<>>, <<"/", "cookies.txt">>},
    browser_cookies : {<<>>, <<"firefox">>},
    rate_limit : {<<>>, <<"1M">>},
    download_section : {<<>>, <<"*0:10-0:20">>},
    force_keyframes : BOOLEAN ]

NoOptions ==
  [ format_id |-> <<>>, resolution |-> <<>>, output_path |-> <<>>, is_playlist |-> FALSE,
    playlist_items |-> <<>>, subtitle_langs |-> <<>>, merge_subs |-> FALSE,
    enable_sponsorblock |-> FALSE, sponsorblock_categories |-> <<>>,
    save_description |-> FALSE, embed_chapters |-> FALSE, cookie_file |-> <<>>,
    browser_cookies |-> <<>>, rate_limit |-> <<>>, download_section |-> <<>>,
    force_keyframes |-> FALSE ]

\* a format id and nothing else but, in some, a resolution
FormatOptions ==
  {[NoOptions EXCEPT !.format_id = id, !.resolution = res] :
     id \in FormatIds, res \in {<<>>, <<"720">>}}

(***************************************************************************)
(* The gateway operations as actions: a call made on an idle gateway runs  *)
(* to its end and leaves its result in ret.                                *)
(***************************************************************************)
Idle == op = "none"

Finish(name, env, fileExists, a, value) ==
  /\ op' = name
  /\ proc' = env
  /\ exists' = fileExists
  /\ args' = a
  /\ ret' = value
  /\ UNCHANGED <<self, ytdlp_manager, heap, phase, calls, last, pc, req, tmp, got>>

ExtractInfoCall ==
  /\ Idle
  /\ \E env \in ExtractEnvs : Finish("extract_info", env, FALSE, NoArgs, extract_info(env))

GetFormatsCall ==
  /\ Idle
  /\ \E env \in ExtractEnvs : Finish("get_formats", env, FALSE, NoArgs, get_formats(env))

GetSubtitlesCall ==
  /\ Idle
  /\ \E env \in ExtractEnvs : Finish("get_subtitles", env, FALSE, NoArgs, get_subtitles(env))

GetThumbnailInfoCall ==
  /\ Idle
  /\ \E env \in ExtractEnvs :
       Finish("get_thumbnail_info", env, FALSE, NoArgs, get_thumbnail_info(env))

GetVersionCall ==
  /\ Idle
  /\ \E env \in VersionEnvs : Finish("get_version", env, FALSE, NoArgs, get_version(env))

CheckAvailabilityCall ==
  /\ Idle
  /\ \E env \in VersionEnvs, fileExists \in BOOLEAN :
       Finish("check_availability", env, fileExists, NoArgs,
              check_availability(self, fileExists, env))

\* the caller takes the result; the gateway keeps no state of the call
Return ==
  /\ ~Idle
  /\ op' = "none"
  /\ proc' = LaunchFailed
  /\ exists' = FALSE
  /\ args' = NoArgs
  /\ ret' = None
  /\ UNCHANGED <<self, ytdlp_manager, heap, phase, calls, last, pc, req, tmp, got>>

InitGateway ==
  /\ op = "none"
  /\ self \in GatewayPaths
  /\ proc = LaunchFailed
  /\ exists = FALSE
  /\ args = NoArgs
  /\ ret = None

InitSingleton ==
  /\ ytdlp_manager = 0
  /\ heap = <<>>
  /\ phase = "sequential"
  /\ calls = 0
  /\ last = <<>>
  /\ pc = <<>>
  /\ req = <<>>
  /\ tmp = <<>>
  /\ got = <<>>

Init == InitGateway /\ InitSingleton

Next ==
  \/ ExtractInfoCall
  \/ GetFormatsCall
  \/ GetSubtitlesCall
  \/ GetThumbnailInfoCall
  \/ GetVersionCall
  \/ CheckAvailabilityCall
  \/ Return

Spec == Init /\ [][Next]_vars

\* The calls of build_download_command: under every combination of options
\* with a few extraction results ("options"), and with a format id alone
\* under every extraction result ("formats").  The extraction runs only when
\* a format id is given.
BuildOptions(slice) == IF slice = "options" THEN AllOptions ELSE FormatOptions

BuildUrls(slice) == IF slice = "options" THEN {Url} ELSE {Url, OtherUrl}

BuildExtractions(slice, o) ==
  IF o.format_id = <<>> THEN {LaunchFailed}
  ELSE IF slice = "options" THEN FewEnvs
  ELSE BuildEnvs

BuildDownloadCommandCall ==
  /\ Idle
  /\ \E slice \in {"options", "formats"} :
       \E o \in BuildOptions(slice), url \in BuildUrls(slice) :
         \E env \in BuildExtractions(slice, o) :
           Finish("build_download_command", env, FALSE, [url |-> url, options |-> o],
                  build_download_command(self, url, o, env))

NextBuild ==
  \/ BuildDownloadCommandCall
  \/ Return

SpecBuild == Init /\ [][NextBuild]_vars

(***************************************************************************)
(* get_ytdlp_manager: first called by one caller at a time, each call      *)
(* running to its end; then by two threads at once, one call each, a step *)
(* being one read or one write of the module-level variable.              *)
(***************************************************************************)
Refs ==
  {StrRef(DefaultPath), PathRef(DefaultPath), PathRef(<<"./", "yt-dlp">>),
   StrRef(<<"./", "yt-dlp">>), StrRef(InstalledPath),
   PathRef(<<"/", "opt", "/", "/", "yt-dlp">>)}

Threads == {1, 2}

get_ytdlp_manager ==
  /\ phase = "sequential"
  /\ calls < MaxCalls
  /\ \E ref \in Refs :
       LET new == NeedsNew(ytdlp_manager, heap, ref) IN
       /\ heap' = IF new THEN Append(heap, NewManager(ref)) ELSE heap
       /\ ytdlp_manager' = IF new THEN Len(heap) + 1 ELSE ytdlp_manager
       /\ last' = [req |-> ref, prev |-> ytdlp_manager, created |-> Len(heap') - Len(heap),
                   ret |-> ytdlp_manager']
       /\ calls' = calls + 1
  /\ UNCHANGED <<phase, pc, req, tmp, got>>
  /\ UNCHANGED gatewayVars

Spawn ==
  /\ phase = "sequential"
  /\ phase' = "threads"
  /\ calls' = 0
  /\ last' = <<>>
  /\ pc' = [t \in Threads |-> "start"]
  /\ req' = [t \in Threads |-> StrRef(DefaultPath)]
  /\ tmp' = [t \in Threads |-> 0]
  /\ got' = [t \in Threads |-> 0]
  /\ UNCHANGED <<ytdlp_manager, heap>>
  /\ UNCHANGED gatewayVars

ThreadCall(t) ==
  /\ phase = "threads" /\ pc[t] = "start"
  /\ \E ref \in Refs : req' = [req EXCEPT ![t] = ref]
  /\ pc' = [pc EXCEPT ![t] = "check_none"]
  /\ UNCHANGED <<ytdlp_manager, heap, phase, calls, last, tmp, got>>
  /\ UNCHANGED gatewayVars

CheckNone(t) ==
  /\ phase = "threads" /\ pc[t] = "check_none"
  /\ pc' = [pc EXCEPT ![t] = IF IsNone(ytdlp_manager) THEN "create" ELSE "check_path"]
  /\ UNCHANGED <<ytdlp_manager, heap, phase, calls, last, req, tmp, got>>
  /\ UNCHANGED gatewayVars

CheckPath(t) ==
  /\ phase = "threads" /\ pc[t] = "check_path"
  /\ pc' = [pc EXCEPT ![t] = IF PathDiffers(ytdlp_manager, heap, req[t]) THEN "create" ELSE "return"]
  /\ UNCHANGED <<ytdlp_manager, heap, phase, calls, last, req, tmp, got>>
  /\ UNCHANGED gatewayVars

Create(t) ==
  /\ phase = "threads" /\ pc[t] = "create"
  /\ heap' = Append(heap, NewManager(req[t]))
  /\ tmp' = [tmp EXCEPT ![t] = Len(heap) + 1]
  /\ pc' = [pc EXCEPT ![t] = "store"]
  /\ UNCHANGED <<ytdlp_manager, phase, calls, last, req, got>>
  /\ UNCHANGED gatewayVars

Store(t) ==
  /\ phase = "threads" /\ pc[t] = "store"
  /\ ytdlp_manager' = tmp[t]
  /\ pc' = [pc EXCEPT ![t] = "return"]
  /\ UNCHANGED <<heap, phase, calls, last, req, tmp, got>>
  /\ UNCHANGED gatewayVars

ReturnManager(t) ==
  /\ phase = "threads" /\ pc[t] = "return"
  /\ got' = [got EXCEPT ![t] = ytdlp_manager]
  /\ pc' = [pc EXCEPT ![t] = "done"]
  /\ UNCHANGED <<ytdlp_manager, heap, phase, calls, last, req, tmp>>
  /\ UNCHANGED gatewayVars

NextSingleton ==
  \/ get_ytdlp_manager
  \/ Spawn
  \/ \E t \in Threads : ThreadCall(t)
  \/ \E t \in Threads : CheckNone(t)
  \/ \E t \in Threads : CheckPath(t)
  \/ \E t \in Threads : Create(t)
  \/ \E t \in Threads : Store(t)
  \/ \E t \in Threads : ReturnManager(t)

SpecSingleton == Init /\ [][NextSingleton]_vars

(***************************************************************************)
(* The properties.                                                         *)
(***************************************************************************)
\* the run of the last operation exited with status 0
ExitedZero == proc.kind = "exit" /\ proc.rc = 0

\* the lines of the stdout as the operation sees them, and those after the
\* first that are not blank
SeenLines == Split(Strip(proc.out))
LaterLines == SelectSeq(SubSeq(SeenLines, 2, Len(SeenLines)), LAMBDA l : ~IsBlank(l))

IsPlaylistHeader(x) ==
  /\ IsObj(x)
  /\ "_type" \in DOMAIN x.v
  /\ x.v["_type"] = JStr(<<"playlist">>)

\* the header with its entries key set to the given list
WithEntries(header, list) ==
  JObj([k \in DOMAIN header.v \cup {"entries"} |->
          IF k = "entries" THEN JArr(list) ELSE header.v[k]])

\* C1: a successful extract_info whose stdout has more than one line, the
\* first a mapping with _type "playlist" and the later ones parsing, returns
\* that first mapping with entries set to what the later lines that are not
\* blank parse to, in their order, the header not among them.
C1_PlaylistEntries ==
  (/\ op = "extract_info"
   /\ ExitedZero
   /\ Len(SeenLines) > 1
   /\ IsPlaylistHeader(JsonLoads(SeenLines[1]))
   /\ \A i \in 1..Len(LaterLines) : ~IsRaise(JsonLoads(LaterLines[i])))
  => ret = WithEntries(JsonLoads(SeenLines[1]),
                       [i \in 1..Len(LaterLines) |-> JsonLoads(LaterLines[i])])

\* a playlist header followed by two different entries has been extracted
C1_Witness ==
  /\ op = "extract_info"
  /\ ExitedZero
  /\ Len(SeenLines) = 3
  /\ IsPlaylistHeader(JsonLoads(SeenLines[1]))
  /\ Len(LaterLines) = 2
  /\ ~IsRaise(JsonLoads(LaterLines[1]))
  /\ ~IsRaise(JsonLoads(LaterLines[2]))
  /\ JsonLoads(LaterLines[1]) # JsonLoads(LaterLines[2])
  /\ IsObj(ret)
  /\ Len(ret.v["entries"].v) = 2

\* a line of the raw stdout that is not blank and is not one JSON document
HasBadLine ==
  \E i \in 1..Len(Split(proc.out)) :
    /\ \E k \in 1..Len(Split(proc.out)[i]) : ~IsSpace(Split(proc.out)[i][k])
    /\ LET line == Split(proc.out)[i]
           text == SelectSeq(line, LAMBDA tok : ~IsSpace(tok))
       IN ~(Len(text) = 1 /\ text[1].k = "json" /\ Len(Strip(line)) = 1)

\* C2: when a line of the stdout of a successful extract_info fails to parse
\* as JSON, extract_info returns None, wherever the line is and whatever the
\* other lines are.
C2_BadLineYieldsNone ==
  (op = "extract_info" /\ ExitedZero /\ HasBadLine) => ret = None

\* a playlist header and an entry parsed, and the third line did not
C2_Witness ==
  /\ op = "extract_info"
  /\ ExitedZero
  /\ proc.out = <<Doc(DocPlaylist), NL, Doc(DocVideo), NL, BAD>>
  /\ ret = None

\* C3: extract_info absorbs every failure: whatever the process did and
\* whatever it printed, lines that are valid JSON but no object included, it
\* never propagates a raised error to its caller.
C3_NeverRaises ==
  op = "extract_info" => ~IsRaise(ret)

\* C4: when the process invocation yields a non-zero status (a non-zero exit
\* code, or the -1 of a timeout or launch failure), extract_info,
\* get_formats, get_subtitles and get_thumbnail_info return None, whatever
\* the stdout.
C4_NonZeroStatusYieldsNone ==
  (/\ op \in {"extract_info", "get_formats", "get_subtitles", "get_thumbnail_info"}
   /\ (proc.kind # "exit" \/ proc.rc # 0))
  => ret = None

\* get_formats after exit code 1 with a stdout that holds a format list
C4_Witness ==
  /\ op = "get_formats"
  /\ proc = Exited(1, <<Doc(DocVideo), NL>>)
  /\ ret = None

\* the failures of an availability check: the missing file, the probe's
\* non-zero status
MissingFile == self # DefaultPath /\ ~exists
ProbeFailed == proc.kind # "exit" \/ proc.rc # 0
\* the probe printed nothing but whitespace
EmptyOutput == \A i \in 1..Len(proc.out) : IsSpace(proc.out[i])

\* C7 as stated: check_availability returns False on every failure, invalid
\* output (exit code 0 with an empty or whitespace-only stdout) included,
\* and True only when there was none.
C7_FalseOnEveryFailure ==
  op = "check_availability"
  => (ret = PyBool(FALSE) <=> (MissingFile \/ ProbeFailed \/ EmptyOutput))

\* C7 amended: check_availability returns False exactly when the reference
\* is a non-default path that does not exist or the probe yields a non-zero
\* status, and True otherwise, whatever the probe printed.
C7_FalseOnMissingFileOrStatus ==
  op = "check_availability"
  => /\ ret \in {PyBool(FALSE), PyBool(TRUE)}
     /\ ret = PyBool(FALSE) <=> (MissingFile \/ ProbeFailed)

\* the probe exited with 0 and whitespace only, and the check answered True
C7_Witness ==
  /\ op = "check_availability"
  /\ ~MissingFile
  /\ ExitedZero
  /\ EmptyOutput
  /\ Len(proc.out) > 0
  /\ ret = PyBool(TRUE)

\* C8: get_subtitles returns the mapping of exactly subtitles and
\* automatic_captions (each an empty mapping when the extracted result lacks
\* it) whenever extract_info returned a mapping, one with no keys included,
\* and None only when extract_info returned None.
C8_SubtitlesOfEveryMapping ==
  op = "get_subtitles"
  => LET info == extract_info(proc) IN
     /\ IsObj(info) =>
          /\ IsObj(ret)
          /\ DOMAIN ret.v = {"subtitles", "automatic_captions"}
          /\ \A k \in DOMAIN ret.v :
               ret.v[k] = IF k \in DOMAIN info.v THEN info.v[k] ELSE EmptyDict
     /\ ret = None => info = None

\* the builder returned a vector
Built == op = "build_download_command" /\ ret.t = "arr"

\* C5: under every combination of options and every result of the
\* extraction, the vector build_download_command returns has the executable
\* reference as its first token and the input URL as its last.
C5_UrlLast ==
  Built => (ret.v[1] = self /\ ret.v[Len(ret.v)] = args.url)

\* every option was given, with a format id whose extraction raised nothing
C5_Witness ==
  /\ Built
  /\ args.options.format_id # <<>>
  /\ args.options.resolution # <<>>
  /\ args.options.is_playlist
  /\ args.options.playlist_items # <<>>
  /\ args.options.subtitle_langs # <<>>
  /\ args.options.merge_subs
  /\ args.options.enable_sponsorblock
  /\ args.options.sponsorblock_categories # <<>>
  /\ args.options.save_description
  /\ args.options.embed_chapters
  /\ args.options.cookie_file # <<>>
  /\ args.options.rate_limit # <<>>
  /\ args.options.download_section # <<>>
  /\ args.options.force_keyframes
  /\ ExitedZero
  /\ Len(ret.v) > 20

\* the formats of the extracted format list that have the given id with its
\* -drc suffix removed
MatchingFormats ==
  LET info == extract_info(proc)
      id == BeforeFirst(args.options.format_id, "-drc")
  IN IF IsObj(info) /\ "formats" \in DOMAIN info.v /\ info.v["formats"].t = "arr"
          /\ \A i \in 1..Len(info.v["formats"].v) : IsObj(info.v["formats"].v[i])
       THEN {f \in {info.v["formats"].v[i] : i \in 1..Len(info.v["formats"].v)} :
               "format_id" \in DOMAIN f.v /\ f.v["format_id"] = JStr(id)}
       ELSE {}

HasNoVideo(f) == "vcodec" \in DOMAIN f.v /\ f.v["vcodec"] = JStr(<<"none">>)

\* neither audio-only by its codec nor by its note, which is absent or a string
IsVideo(f) ==
  /\ ~HasNoVideo(f)
  /\ "format_note" \in DOMAIN f.v =>
       /\ f.v["format_note"].t = "str"
       /\ \A i \in 1..Len(f.v["format_note"].v) :
            f.v["format_note"].v[i] \notin {"audio only", "Audio Only"}

Follows(cmd, flag, value) ==
  \E i \in 1..(Len(cmd) - 1) : cmd[i] = <<flag>> /\ cmd[i + 1] = value

C9_SequentialCalls ==
  (phase = "sequential" /\ calls > 0)
  => LET wanted == StrOf(last.req) IN
     /\ last.ret \in 1..Len(heap)
     /\ heap[last.ret] = wanted
     /\ ytdlp_manager = last.ret
     /\ (last.prev # 0 /\ heap[last.prev] = wanted) =>
          (last.ret = last.prev /\ last.created = 0)
     /\ (last.prev = 0 \/ heap[last.prev] # wanted) =>
          (last.ret # last.prev /\ last.created = 1 /\ last.ret = Len(heap))

\* the third call asked, as a Path, for the reference the singleton had, after
\* an earlier call had replaced the singleton
C9_Witness ==
  /\ phase = "sequential"
  /\ calls = 3
  /\ Len(heap) = 2
  /\ last.req.kind = "path"
  /\ last.req.v # StrOf(last.req)
  /\ last.prev = 2
  /\ last.ret = 2

BothCalled == phase = "threads" /\ \A t \in Threads : pc[t] # "start"

\* C10 as stated: two threads calling at once with different references each
\* receive a gateway whose stored reference is the one that thread requested.
C10_EachThreadGetsItsOwn ==
  (BothCalled /\ StrOf(req[1]) # StrOf(req[2]))
  => \A t \in Threads : pc[t] = "done" => heap[got[t]] = StrOf(req[t])

\* C10 amended: each thread receives a gateway, and its stored reference is
\* the one requested by that thread or the one requested by the other.
C10_EachThreadGetsARequested ==
  BothCalled
  => \A t \in Threads :
       pc[t] = "done" =>
         /\ got[t] \in 1..Len(heap)
         /\ \E u \in Threads : heap[got[t]] = StrOf(req[u])

\* both threads have returned, and thread 1 holds the gateway of thread 2
C10_Witness ==
  /\ BothCalled
  /\ pc[1] = "done" /\ pc[2] = "done"
  /\ StrOf(req[1]) # StrOf(req[2])
  /\ heap[got[1]] = StrOf(req[2])
  /\ heap[got[2]] = StrOf(req[2])

====
